---- MODULE Spec2Model ----
(***************************************************************************)
(* Model of the document-to-table pipeline of financial-file-processor:    *)
(* parsers/gpt_parser.py (parse_with_gpt and GPTFinancialParser),          *)
(* parsers/openai_integration.py (categorize_transactions), and the        *)
(* application around them: app.py (session state, process_uploaded_file, *)
(* main) and history.py (the upload history file).                         *)
(*                                                                         *)
(* The language model, the file readers and the credential store are the   *)
(* environment: every answer they can give is an input of the action that  *)
(* consumes it.                                                            *)
(***************************************************************************)
EXTENDS Integers, Sequences, FiniteSets, TLC

VARIABLES apiKey, doc, extractOut, parseOut, catIn, catOut,
          session, uploaded_file, history, log

\* the application: st.session_state, the file in the uploader, the content
\* of data/upload_history.json, and a record of what the runs of the script
\* did
appVars == <<session, uploaded_file, history, log>>

vars == <<apiKey, doc, extractOut, parseOut, catIn, catOut, appVars>>

-----------------------------------------------------------------------------
(* Bounds of the model.                                                    *)

\* longest data array / label array a model response carries
MaxRows == 2
\* how far past the truncation constant the longest document reaches
MaxExtra == 2
\* most sheets or pages a file has
MaxPages == 2

-----------------------------------------------------------------------------
(* Cell values.  A JSON scalar or a pandas cell is a tagged value; NaN,    *)
(* NaT and None are all the null value.                                    *)

Num(n) == [tag |-> "num", n |-> n, s |-> ""]
Str(s) == [tag |-> "str", n |-> 0, s |-> s]
Null == [tag |-> "null", n |-> 0, s |-> ""]

Min(a, b) == IF a <= b THEN a ELSE b

\* str.lower() on the strings the model works with
Lower(s) ==
    CASE s = "Transaction List" -> "transaction list"
      [] s = "Transactions" -> "transactions"
      [] s = "Profit and Loss Statement" -> "profit and loss statement"
      [] s = "Income Statement" -> "income statement"
      [] s = "Balance Sheet" -> "balance sheet"
      [] s = "Cash Flow Statement" -> "cash flow statement"
      [] s = "Other" -> "other"
      [] s = "Unknown" -> "unknown"
      [] s = ".XLSX" -> ".xlsx"
      [] s = ".Pdf" -> ".pdf"
      [] s = ".PNG" -> ".png"
      [] s = ".DOCX" -> ".docx"
      [] OTHER -> s

-----------------------------------------------------------------------------
(* Tables (pandas DataFrames): a set of column names and a sequence of     *)
(* rows, each row a function from the columns to cell values.              *)

Table(cols, rows) == [cols |-> cols, rows |-> rows]

\* pd.DataFrame(columns=['date', 'description', 'amount'])
StandardColumns == {"date", "description", "amount"}
EmptyStandardTable == Table(StandardColumns, <<>>)

\* the column set visualization.display_financial_dashboard documents
CanonicalColumns == {"date", "description", "amount", "main_category", "subcategory"}

\* df[c] = vals, vals one value per row
SetColumn(t, c, vals) ==
    Table(t.cols \cup {c},
          [i \in 1..Len(t.rows) |->
              [k \in t.cols \cup {c} |-> IF k = c THEN vals[i] ELSE t.rows[i][k]]])

\* df[c] = scalar
SetColumnScalar(t, c, v) == SetColumn(t, c, [i \in 1..Len(t.rows) |-> v])

\* the numbers a numeric string denotes
NumericStrings == {"1200.00", "-800"}
ParseNumber(s) == IF s = "1200.00" THEN 1200 ELSE -800

\* pd.to_numeric(x, errors='coerce'), per value
to_numeric(v) ==
    CASE v.tag = "num" -> v
      [] v.tag = "str" -> IF v.s \in NumericStrings THEN Num(ParseNumber(v.s)) ELSE Null
      [] OTHER -> Null

\* the date strings pandas parses, and the day each denotes
DateStrings == {"2025-03-01", "2025-03-01T10:30:00"}
ParseDate(s) == "2025-03-01"

\* the day written day first: strftime('%d/%m/%Y')
to_datetime_strftime_DMY(v) ==
    IF v.tag = "str" /\ v.s \in DateStrings THEN Str("01/03/2025") ELSE Null

\* pd.to_datetime(x, errors='coerce').dt.strftime('%Y-%m-%d'), per value
to_datetime_strftime(v) ==
    IF v.tag = "str" /\ v.s \in DateStrings THEN Str(ParseDate(v.s)) ELSE Null

\* only the canonical keys become columns
KeysOf_Canonical(recs) ==
    UNION {DOMAIN recs[i] : i \in 1..Len(recs)} \cap CanonicalColumns

\* Union of the keys of a sequence of records
KeysOf(recs) == UNION {DOMAIN recs[i] : i \in 1..Len(recs)}

\* the rows built from the last record to the first
FrameOfRecords_Reversed(recs) ==
    Table(KeysOf(recs),
          [i \in 1..Len(recs) |->
              [k \in KeysOf(recs) |->
                  IF k \in DOMAIN recs[Len(recs) + 1 - i]
                  THEN recs[Len(recs) + 1 - i][k] ELSE Null]])

\* pd.DataFrame(list of dicts): one row per dict, the columns are the union
\* of the keys, a key a dict lacks is NaN in its row
FrameOfRecords(recs) ==
    Table(KeysOf(recs),
          [i \in 1..Len(recs) |->
              [k \in KeysOf(recs) |-> IF k \in DOMAIN recs[i] THEN recs[i][k] ELSE Null]])

-----------------------------------------------------------------------------
(* What the language model can answer.                                     *)

\* one element of the data array: the keys the model chose, with its values
ProvisionalRecords ==
    { [date |-> Str("2025-03-01"), description |-> Str("Sales"), amount |-> Num(1200)],
      [date |-> Null, description |-> Str("Rent"), amount |-> Str("-800")],
      [description |-> Str("Fee"), amount |-> Str("n/a")],
      [date |-> Str("yesterday"), amount |-> Str("1200.00"), entity |-> Str("Acme")],
      [subcategory |-> Str("Sales Revenue"), period |-> Str("March 2025"),
       amount |-> Num(1200)] }

RECURSIVE SeqsUpTo(_, _)
SeqsUpTo(S, n) ==
    IF n = 0 THEN {<<>>}
    ELSE LET shorter == SeqsUpTo(S, n - 1)
         IN  shorter \cup {Append(q, x) : q \in {r \in shorter : Len(r) = n - 1}, x \in S}

RecordLists == SeqsUpTo(ProvisionalRecords, MaxRows)

\* the JSON value found under the "transactions" key
DataValue(dk, recs) == [dk |-> dk, recs |-> recs]
DataValues ==
    {DataValue("list", recs) : recs \in RecordLists}
    \cup {DataValue("dict_of_lists", recs) : recs \in {r \in RecordLists : Len(r) = 1}}
    \cup {DataValue(dk, <<>>) : dk \in {"string", "number", "null", "dict_of_scalars"}}

\* the outcome of one chat.completions.create call of a _parse_* method
ParseResponse(k, data) == [k |-> k, data |-> data]
ParseResponses ==
    {ParseResponse(k, DataValue("null", <<>>)) :
        k \in {"api_error", "invalid_json", "not_object", "no_key"}}
    \cup {ParseResponse("object", d) : d \in DataValues}

\* the outcome of the call of detect_document_type
DetectResponse(k, type) == [k |-> k, type |-> type]
DocumentTypes ==
    {Str(s) : s \in {"Transaction List", "transactions", "Profit and Loss Statement",
                     "Balance Sheet", "Cash Flow Statement"}} \cup {Num(3), Null}
DetectResponses ==
    {DetectResponse(k, Null) : k \in {"api_error", "invalid_json", "no_key"}}
    \cup {DetectResponse("object", t) : t \in DocumentTypes}

-----------------------------------------------------------------------------
(* parsers/gpt_parser.py                                                   *)

\* content[:4000] of detect_document_type
DetectLimit == 4000
\* content[:8000] of the _parse_* methods
TruncLimit == 8000

\* the slice forgotten: the whole content goes into the prompt
Truncate_Whole(content, n) == content

\* content[:n]
Truncate(content, n) == SubSeq(content, 1, Min(Len(content), n))

Request(purpose, text) == [purpose |-> purpose, text |-> text]

\* an empty data array refused
DataFrame_EmptyRaises(d) ==
    CASE d.dk \in {"list", "dict_of_lists"} ->
            [raised |-> d.recs = <<>>, table |-> FrameOfRecords(d.recs)]
      [] d.dk = "null" ->
            [raised |-> FALSE, table |-> Table({}, <<>>)]
      [] OTHER ->
            [raised |-> TRUE, table |-> Table({}, <<>>)]

\* pd.DataFrame(result["transactions"])
DataFrame(d) ==
    CASE d.dk \in {"list", "dict_of_lists"} ->
            [raised |-> FALSE, table |-> FrameOfRecords(d.recs)]
      [] d.dk = "null" ->
            [raised |-> FALSE, table |-> Table({}, <<>>)]
      [] OTHER ->
            [raised |-> TRUE, table |-> Table({}, <<>>)]

\* the rows whose amount did not parse are dropped: dropna(subset=['amount'])
CoerceTypes_DropNa(df) ==
    LET a == IF "amount" \in df.cols
             THEN SetColumn(df, "amount",
                            [i \in 1..Len(df.rows) |-> to_numeric(df.rows[i]["amount"])])
             ELSE df
        b == IF "amount" \in a.cols
             THEN Table(a.cols, SelectSeq(a.rows, LAMBDA row : row["amount"] # Null))
             ELSE a
    IN  IF "date" \in b.cols
        THEN SetColumn(b, "date",
                       [i \in 1..Len(b.rows) |-> to_datetime_strftime(b.rows[i]["date"])])
        ELSE b

\* "Ensure correct data types"
CoerceTypes(df) ==
    LET a == IF "amount" \in df.cols
             THEN SetColumn(df, "amount",
                            [i \in 1..Len(df.rows) |-> to_numeric(df.rows[i]["amount"])])
             ELSE df
    IN  IF "date" \in a.cols
        THEN SetColumn(a, "date",
                       [i \in 1..Len(a.rows) |-> to_datetime_strftime(a.rows[i]["date"])])
        ELSE a

\* "except Exception as e: ... return pd.DataFrame(columns=[...])": a raised
\* exception ends in the empty standard table; who caught it is remembered
Catch(r, who) ==
    IF r.raised
    THEN [r EXCEPT !.raised = FALSE, !.table = EmptyStandardTable, !.handler = who]
    ELSE r

Outcome(raised, table, requests, reads) ==
    [raised |-> raised, table |-> table, requests |-> requests, reads |-> reads,
     handler |-> "none"]

\* the try block shared by the four _parse_* methods, which differ in the prompt
ParseTry(purpose, content, resp) ==
    LET req == Request(purpose, Truncate(content, TruncLimit))
        df == DataFrame(resp.data)
    IN  IF resp.k # "object" \/ df.raised
        THEN Outcome(TRUE, Table({}, <<>>), <<req>>, 0)
        ELSE Outcome(FALSE, CoerceTypes(df.table), <<req>>, 0)

_parse_transaction_list(content, resp) ==
    Catch(ParseTry("transaction_list", content, resp), "_parse_transaction_list")
_parse_profit_and_loss(content, resp) ==
    Catch(ParseTry("profit_and_loss", content, resp), "_parse_profit_and_loss")
_parse_balance_sheet(content, resp) ==
    Catch(ParseTry("balance_sheet", content, resp), "_parse_balance_sheet")
_parse_generic_financial_data(content, resp) ==
    Catch(ParseTry("generic", content, resp), "_parse_generic_financial_data")

\* returns the "document_type" of the answer, "Unknown" on any exception
detect_document_type(content, resp) ==
    [type |-> IF resp.k = "object" THEN resp.type ELSE Str("Unknown"),
     requests |-> <<Request("detect", Truncate(content, DetectLimit))>>]

SupportedExts == {".xlsx", ".xls", ".csv", ".pdf", ".jpg", ".jpeg", ".png"}

\* the text of the units (sheets, pages) of a file, one after the other
RECURSIVE Concat(_)
Concat(pages) == IF pages = <<>> THEN <<>> ELSE Head(pages) \o Concat(Tail(pages))

\* what extract_file_content hands back or raises
Extracted(raised, error, etype, text, detail, content, reads, reader) ==
    [raised |-> raised, error |-> error, etype |-> etype,
     message |-> [text |-> text, detail |-> detail],
     content |-> content, reads |-> reads, reader |-> reader]

\* the try block of an _extract_* method: the content is accumulated unit by
\* unit.  failAt = 0: the reader succeeds; failAt = k > 0: it raises at the
\* k-th unit (past the last one: after all of them), with what it read so
\* far in its local variable
ReaderTry(pages, failAt) ==
    IF failAt = 0
    THEN [raised |-> FALSE, content |-> Concat(pages)]
    ELSE [raised |-> TRUE,
          content |-> Concat(SubSeq(pages, 1, Min(failAt - 1, Len(pages))))]

\* "except Exception as e: raise ValueError(f"Error extracting X content: {e}")"
ReaderCatch(t, reader, text, cause) ==
    IF t.raised
    THEN Extracted(TRUE, "extraction", "ValueError", text, cause, <<>>, 1, reader)
    ELSE Extracted(FALSE, "none", "none", "", "", t.content, 1, reader)

_extract_excel_content(pages, failAt, cause) ==
    ReaderCatch(ReaderTry(pages, failAt), "excel",
                "Error extracting Excel content", cause)
_extract_csv_content(pages, failAt, cause) ==
    ReaderCatch(ReaderTry(pages, failAt), "csv",
                "Error extracting CSV content", cause)

\* a failing page ends the loop and what was read so far is handed back
_extract_pdf_content_Partial(pages, failAt, cause) ==
    Extracted(FALSE, "none", "none", "", "", ReaderTry(pages, failAt).content, 1, "pdf")

_extract_pdf_content(pages, failAt, cause) ==
    ReaderCatch(ReaderTry(pages, failAt), "pdf",
                "Error extracting PDF content", cause)
_extract_image_content(pages, failAt, cause) ==
    ReaderCatch(ReaderTry(pages, failAt), "image",
                "Error extracting image content", cause)

\* the extension compared as it is spelled
extract_file_content_CaseSensitive(ext, pages, failAt, cause) ==
    CASE ext \in {".xlsx", ".xls"} -> _extract_excel_content(pages, failAt, cause)
      [] ext = ".csv" -> _extract_csv_content(pages, failAt, cause)
      [] ext = ".pdf" -> _extract_pdf_content(pages, failAt, cause)
      [] ext \in {".jpg", ".jpeg", ".png"} -> _extract_image_content(pages, failAt, cause)
      [] OTHER -> Extracted(TRUE, "unsupported", "ValueError", "Unsupported file type",
                            ext, <<>>, 0, "none")

\* pages, failAt, cause: what the format-specific reader finds in the file
extract_file_content(ext, pages, failAt, cause) ==
    LET e == Lower(ext)
    IN  CASE e \in {".xlsx", ".xls"} -> _extract_excel_content(pages, failAt, cause)
          [] e = ".csv" -> _extract_csv_content(pages, failAt, cause)
          [] e = ".pdf" -> _extract_pdf_content(pages, failAt, cause)
          [] e \in {".jpg", ".jpeg", ".png"} -> _extract_image_content(pages, failAt, cause)
          [] OTHER -> Extracted(TRUE, "unsupported", "ValueError", "Unsupported file type",
                                e, <<>>, 0, "none")

\* self.extract_file_content(file_path) of parse_financial_document, for a
\* file of one unit that its reader reads (readOk) or not
ReadFile(ext, readOk, content) ==
    extract_file_content(ext, <<content>>, IF readOk THEN 0 ELSE 1, "corrupt file")

\* the try block of parse_financial_document
DocumentTry(ext, readOk, content, detResp, parseResp) ==
    LET ex == ReadFile(ext, readOk, content)
        dt == detect_document_type(ex.content, detResp)
    IN  IF ex.raised THEN Outcome(TRUE, Table({}, <<>>), <<>>, ex.reads)
        ELSE IF dt.type.tag # "str"     \* document_type.lower() on a non-string
        THEN Outcome(TRUE, Table({}, <<>>), dt.requests, ex.reads)
        ELSE LET t == Lower(dt.type.s)
                 r == CASE t \in {"transaction list", "transactions"} ->
                             _parse_transaction_list(ex.content, parseResp)
                        [] t \in {"profit and loss statement", "profit and loss",
                                  "income statement"} ->
                             _parse_profit_and_loss(ex.content, parseResp)
                        [] t \in {"balance sheet"} ->
                             _parse_balance_sheet(ex.content, parseResp)
                        [] OTHER ->
                             _parse_generic_financial_data(ex.content, parseResp)
             IN  [r EXCEPT !.requests = dt.requests \o r.requests, !.reads = ex.reads]

parse_financial_document(ext, readOk, content, detResp, parseResp) ==
    Catch(DocumentTry(ext, readOk, content, detResp, parseResp),
          "parse_financial_document")

\* the constructor goes on without a credential
GPTFinancialParser_init_NoCheck(key) == [raised |-> FALSE]

\* GPTFinancialParser(): raises when no credential is resolvable
GPTFinancialParser_init(key) == [raised |-> ~key]

parse_with_gpt(key, ext, readOk, content, detResp, parseResp) ==
    Catch(IF GPTFinancialParser_init(key).raised
          THEN Outcome(TRUE, Table({}, <<>>), <<>>, 0)
          ELSE parse_financial_document(ext, readOk, content, detResp, parseResp),
          "parse_with_gpt")

-----------------------------------------------------------------------------
(* parsers/openai_integration.py                                           *)

\* the categories the prompt of categorize_transactions lists
Vocabulary ==
    {"Revenue", "Expenses: Office", "Expenses: Travel", "Expenses: Marketing",
     "Expenses: Professional Services", "Expenses: Technology", "Expenses: Payroll",
     "Expenses: Other", "Asset Purchase", "Liability Payment", "Transfer",
     "Uncategorized"}

Uncategorized == Str("Uncategorized")

\* the labels a response may carry: from the prompt's list, or of the model's
\* own making
ResponseLabels == {Str("Revenue"), Str("Expenses: Office"), Str("Groceries")}
LabelLists == SeqsUpTo(ResponseLabels, MaxRows + 1)

\* a JSON value standing where the label array is expected
JsonList(labels) == [vk |-> "list", labels |-> labels, len |-> Len(labels)]
JsonString(s, n) == [vk |-> "string", labels |-> <<Str(s)>>, len |-> n]
JsonNumber == [vk |-> "number", labels |-> <<>>, len |-> 0]

\* the outcome of the chat.completions.create call of categorize_transactions:
\* the call fails, or answers text that is not JSON, JSON that is not an
\* object, or an object: with a "categories" key (of any value), without it
\* but with some list-valued entry ("other"), or with neither ("none")
CatResponse(k, key, val) == [k |-> k, key |-> key, val |-> val]
CatResponses ==
    {CatResponse(k, "none", JsonNumber) : k \in {"api_error", "invalid_json", "not_object"}}
    \cup {CatResponse("object", "none", JsonNumber)}
    \cup {CatResponse("object", key, JsonList(l)) :
            key \in {"categories", "other"}, l \in LabelLists}
    \cup {CatResponse("object", "categories", v) :
            v \in {JsonString("ab", 2), JsonString("x", 1), JsonNumber}}

\* float(row['amount']) raises on a string that is not a number
FloatRaises(v) == v.tag = "str" /\ v.s \notin NumericStrings

\* the loop over result_df.iterrows() raises: a row lacks one of the three
\* columns it reads, or its amount is not convertible
RowsRaise(df) ==
    \E i \in 1..Len(df.rows) :
        \/ ~(StandardColumns \subseteq df.cols)
        \/ FloatRaises(df.rows[i]["amount"])

CatOutcome(raised, table, input, same, requests, handler) ==
    [raised |-> raised, table |-> table, inputAfter |-> input, same |-> same,
     requests |-> requests, handler |-> handler]

\* the labels assigned from the last to the first
AssignCategories_Reversed(df, val) ==
    IF val.vk = "list"
    THEN SetColumn(df, "category",
                   [i \in 1..Len(val.labels) |-> val.labels[Len(val.labels) + 1 - i]])
    ELSE SetColumnScalar(df, "category", val.labels[1])

\* result_df['category'] = categories, for a value as long as the table
AssignCategories(df, val) ==
    IF val.vk = "list" THEN SetColumn(df, "category", val.labels)
    ELSE SetColumnScalar(df, "category", val.labels[1])

\* a length check that only asks for enough labels
ResponseTry_AtLeast(result_df, resp) ==
    CASE resp.k = "invalid_json" ->
            [raised |-> FALSE, handler |-> "inner",
             table |-> SetColumnScalar(result_df, "category", Uncategorized)]
      [] resp.k = "not_object" ->
            [raised |-> TRUE, handler |-> "none", table |-> result_df]
      [] resp.key = "none" ->
            [raised |-> FALSE, handler |-> "inner",
             table |-> SetColumnScalar(result_df, "category", Uncategorized)]
      [] resp.val.vk = "number" ->
            [raised |-> TRUE, handler |-> "none", table |-> result_df]
      [] resp.val.len >= Len(result_df.rows) ->
            [raised |-> FALSE, handler |-> "none",
             table |-> AssignCategories(result_df, resp.val)]
      [] OTHER ->
            [raised |-> FALSE, handler |-> "mismatch",
             table |-> SetColumnScalar(result_df, "category", Uncategorized)]

\* the inner try block, lines 95-125: the table it leaves in result_df, or
\* an exception that its except clause does not catch
ResponseTry(result_df, resp) ==
    CASE resp.k = "invalid_json" ->
            [raised |-> FALSE, handler |-> "inner",
             table |-> SetColumnScalar(result_df, "category", Uncategorized)]
      [] resp.k = "not_object" ->
            [raised |-> TRUE, handler |-> "none", table |-> result_df]
      [] resp.key = "none" ->
            [raised |-> FALSE, handler |-> "inner",
             table |-> SetColumnScalar(result_df, "category", Uncategorized)]
      [] resp.val.vk = "number" ->      \* len() of a number
            [raised |-> TRUE, handler |-> "none", table |-> result_df]
      [] resp.val.len = Len(result_df.rows) ->
            [raised |-> FALSE, handler |-> "none",
             table |-> AssignCategories(result_df, resp.val)]
      [] OTHER ->
            [raised |-> FALSE, handler |-> "mismatch",
             table |-> SetColumnScalar(result_df, "category", Uncategorized)]

\* the handler answering, as the parsers' handlers do, with an empty table
CatCatch_Empty(transactions_df, requests) ==
    LET t == SetColumnScalar(EmptyStandardTable, "category", Uncategorized)
    IN  CatOutcome(FALSE, t, transactions_df, FALSE, requests, "outer")

\* the outer "except Exception": the placeholder goes on the caller's table,
\* which is returned
CatCatch(transactions_df, requests) ==
    LET t == SetColumnScalar(transactions_df, "category", Uncategorized)
    IN  CatOutcome(FALSE, t, t, TRUE, requests, "outer")

\* the credential check left out: the request is built and sent anyway
categorize_transactions_NoKeyCheck(key, transactions_df, resp) ==
    LET result_df == SetColumnScalar(transactions_df, "category", Str(""))
        req == Request("categorize", result_df.rows)
        r == ResponseTry(result_df, resp)
    IN  IF RowsRaise(result_df) THEN CatCatch(transactions_df, <<>>)
        ELSE IF resp.k = "api_error" THEN CatCatch(transactions_df, <<req>>)
        ELSE IF r.raised THEN CatCatch(transactions_df, <<req>>)
        ELSE CatOutcome(FALSE, r.table, transactions_df, FALSE, <<req>>, r.handler)

categorize_transactions(key, transactions_df, resp) ==
    LET result_df == SetColumnScalar(transactions_df, "category", Str(""))
        req == Request("categorize", result_df.rows)
        r == ResponseTry(result_df, resp)
    IN  IF ~key
        THEN LET t == SetColumnScalar(transactions_df, "category", Uncategorized)
             IN  CatOutcome(FALSE, t, t, TRUE, <<>>, "no_key")
        ELSE IF RowsRaise(result_df) THEN CatCatch(transactions_df, <<>>)
        ELSE IF resp.k = "api_error" THEN CatCatch(transactions_df, <<req>>)
        ELSE IF r.raised THEN CatCatch(transactions_df, <<req>>)
        ELSE CatOutcome(FALSE, r.table, transactions_df, FALSE, <<req>>, r.handler)

-----------------------------------------------------------------------------
(* State: apiKey is whether a credential is resolvable (environment        *)
(* variable or secrets store); doc is the document handed to               *)
(* parse_with_gpt together with what the file reader and the model answer  *)
(* for it, parseOut what the call did and returned; catIn and catOut are   *)
(* the same for categorize_transactions.                                   *)

\* a document of n characters
MkContent(n) == [i \in 1..n |-> (i * i) % 7]

FileExts == {".xlsx", ".XLSX", ".xls", ".csv", ".pdf", ".jpeg", ".PNG", ".txt", ""}
SmallContents == {MkContent(n) : n \in {0, 3}}
BoundaryContents ==
    {MkContent(n) : n \in {0, 1, DetectLimit, DetectLimit + 1,
                           TruncLimit - 1, TruncLimit} \cup
                          {TruncLimit + k : k \in 1..MaxExtra}}

Document(ext, readOk, content, detResp, parseResp) ==
    [ext |-> ext, readOk |-> readOk, content |-> content,
     detResp |-> detResp, parseResp |-> parseResp]

Documents ==
    {Document(ext, readOk, content, detResp, parseResp) :
        ext \in FileExts, readOk \in BOOLEAN, content \in SmallContents,
        detResp \in DetectResponses, parseResp \in ParseResponses}

\* documents around the truncation constants
LongDocuments ==
    {Document(ext, TRUE, content, detResp, parseResp) :
        ext \in {".csv", ".txt"}, content \in BoundaryContents,
        detResp \in {DetectResponse("api_error", Null),
                     DetectResponse("object", Str("Transaction List")),
                     DetectResponse("object", Str("Balance Sheet")),
                     DetectResponse("object", Str("Profit and Loss Statement"))},
        parseResp \in {ParseResponse("api_error", DataValue("null", <<>>)),
                       ParseResponse("object", DataValue("list", <<>>))}}

NoDoc == [none |-> TRUE]
NotCalled == [called |-> FALSE]

\* Python's None
None == [none |-> TRUE]

\* "Initialize session state"
InitialSession ==
    [transactions |-> None, categorized_data |-> None, file_uploaded |-> FALSE,
     use_gpt_parser |-> TRUE]

\* nothing run yet: no call of process_uploaded_file or save_upload_history
EmptyLog ==
    [written |-> <<>>, clearedAt |-> 0, processed |-> <<>>, runs |-> 0, resets |-> 0,
     event |-> "none"]

\* the application before its first run, with no history file
AppNotStarted ==
    /\ session = InitialSession
    /\ uploaded_file = None
    /\ history = <<>>
    /\ log = EmptyLog

\* the files extract_file_content is given: the unit texts, where the reader
\* fails (0: nowhere) and with what exception text
PageTexts == {MkContent(0), MkContent(2)}
Causes == {"EOF marker not found", "Permission denied"}
ExtractExts == FileExts \cup {".Pdf", ".jpg", ".DOCX"}
Files ==
    {[ext |-> ext, pages |-> pages, failAt |-> failAt, cause |-> cause] :
        ext \in ExtractExts, pages \in SeqsUpTo(PageTexts, MaxPages),
        failAt \in 0..(MaxPages + 1), cause \in Causes}

\* one call extract_file_content(file_path)
ExtractFileContent ==
    /\ "pages" \in DOMAIN doc
    /\ ~extractOut.called
    /\ extractOut' = extract_file_content(doc.ext, doc.pages, doc.failAt, doc.cause)
                        @@ [called |-> TRUE]
    /\ UNCHANGED <<apiKey, doc, parseOut, catIn, catOut, appVars>>

InitExtract ==
    /\ apiKey = TRUE
    /\ doc \in Files
    /\ extractOut = NotCalled
    /\ parseOut = NotCalled
    /\ catIn = NoDoc
    /\ catOut = NotCalled
    /\ AppNotStarted

NextExtract == ExtractFileContent
SpecExtract == InitExtract /\ [][NextExtract]_vars

\* one call parse_with_gpt(file_path)
ParseWithGpt ==
    /\ doc # NoDoc
    /\ ~parseOut.called
    /\ parseOut' = parse_with_gpt(apiKey, doc.ext, doc.readOk, doc.content,
                                  doc.detResp, doc.parseResp) @@ [called |-> TRUE]
    /\ UNCHANGED <<apiKey, doc, extractOut, catIn, catOut, appVars>>

InitParse ==
    /\ apiKey \in BOOLEAN
    /\ doc \in Documents
    /\ extractOut = NotCalled
    /\ parseOut = NotCalled
    /\ catIn = NoDoc
    /\ catOut = NotCalled
    /\ AppNotStarted

NextParse == ParseWithGpt
SpecParse == InitParse /\ [][NextParse]_vars

InitTrunc ==
    /\ apiKey \in BOOLEAN
    /\ doc \in LongDocuments
    /\ extractOut = NotCalled
    /\ parseOut = NotCalled
    /\ catIn = NoDoc
    /\ catOut = NotCalled
    /\ AppNotStarted

SpecTrunc == InitTrunc /\ [][NextParse]_vars

\* the tables parse_with_gpt hands on
ParsedTables ==
    {parse_with_gpt(TRUE, ".csv", TRUE, <<>>,
                    DetectResponse("object", Str("Transaction List")), r).table :
        r \in ParseResponses}

CatInputs == {[table |-> t, resp |-> r] : t \in ParsedTables, r \in CatResponses}

\* one call categorize_transactions(transactions_df)
CategorizeTransactions ==
    /\ catIn # NoDoc
    /\ ~catOut.called
    /\ catOut' = categorize_transactions(apiKey, catIn.table, catIn.resp)
                    @@ [called |-> TRUE]
    /\ UNCHANGED <<apiKey, doc, extractOut, parseOut, catIn, appVars>>

InitCat ==
    /\ apiKey \in BOOLEAN
    /\ doc = NoDoc
    /\ extractOut = NotCalled
    /\ parseOut = NotCalled
    /\ catIn \in CatInputs
    /\ catOut = NotCalled
    /\ AppNotStarted

NextCat == CategorizeTransactions
SpecCat == InitCat /\ [][NextCat]_vars

-----------------------------------------------------------------------------
(* history.py.  The history file is the sequence of its entries; no file   *)
(* is the empty sequence.                                                  *)

HistoryEntry(filename, file_type, timestamp) ==
    [filename |-> filename, file_type |-> file_type, timestamp |-> timestamp,
     status |-> "processed"]

\* the file written with the new entry alone
save_upload_history_Overwrite(hist, filename, file_type, timestamp) ==
    <<HistoryEntry(filename, file_type, timestamp)>>

\* load, append, dump
save_upload_history(hist, filename, file_type, timestamp) ==
    Append(hist, HistoryEntry(filename, file_type, timestamp))

\* os.remove(HISTORY_FILE)
clear_upload_history(hist) == <<>>

-----------------------------------------------------------------------------
(* app.py.  One run of the script is one step: Streamlit runs main() from  *)
(* top to bottom after each interaction, and st.rerun() ends a run.        *)

\* the file types process_uploaded_file has a traditional parser for
TraditionalTypes == {"xlsx", "xls", "csv", "pdf", "jpg", "jpeg", "png"}

\* a file in the uploader, with what its reader, the traditional parser and
\* the model answer for it
Upload(name, type, ext, readOk, parseResp, catResp, traditional) ==
    [name |-> name, type |-> type, ext |-> ext, readOk |-> readOk,
     parseResp |-> parseResp, catResp |-> catResp, traditional |-> traditional]

SalesRecord == [date |-> Str("2025-03-01"), description |-> Str("Sales"), amount |-> Num(1200)]
RentRecord == [date |-> Null, description |-> Str("Rent"), amount |-> Str("-800")]
FeeRecord == [description |-> Str("Fee"), amount |-> Str("n/a")]

Uploads ==
    { Upload("sales.xlsx", "xlsx", ".xlsx", TRUE,
             ParseResponse("object", DataValue("list", <<SalesRecord, RentRecord>>)),
             CatResponse("object", "categories",
                         JsonList(<<Str("Revenue"), Str("Expenses: Office")>>)),
             FrameOfRecords(<<SalesRecord>>)),
      Upload("fees.pdf", "pdf", ".pdf", TRUE,
             ParseResponse("object", DataValue("list", <<FeeRecord>>)),
             CatResponse("api_error", "none", JsonNumber),
             EmptyStandardTable),
      Upload("scan.png", "png", ".png", FALSE,
             ParseResponse("api_error", DataValue("null", <<>>)),
             CatResponse("object", "categories", JsonList(<<>>)),
             EmptyStandardTable),
      Upload("notes.txt", "txt", ".txt", TRUE,
             ParseResponse("object", DataValue("list", <<>>)),
             CatResponse("object", "categories", JsonList(<<>>)),
             EmptyStandardTable) }

\* what one call of process_uploaded_file returns and leaves behind
Processed(transactions, hist, saved, parsers) ==
    [transactions |-> transactions, history |-> hist, saved |-> saved,
     parsers |-> parsers]

\* the history entry written before the file type is looked at
process_uploaded_file_SaveFirst(key, u, use_gpt, hist, now) ==
    LET filename == [timestamp |-> now, name |-> u.name]
        saved == save_upload_history(hist, filename, u.type, now)
        entry == <<HistoryEntry(filename, u.type, now)>>
    IN  IF use_gpt
        THEN Processed(parse_with_gpt(key, u.ext, u.readOk, MkContent(3),
                                      DetectResponse("object", Str("Transaction List")),
                                      u.parseResp).table,
                       saved, entry, 1)
        ELSE IF u.type \in TraditionalTypes
        THEN Processed(u.traditional, saved, entry, 1)
        ELSE Processed(None, saved, entry, 0)

process_uploaded_file(key, u, use_gpt, hist, now) ==
    LET filename == [timestamp |-> now, name |-> u.name]
        saved == save_upload_history(hist, filename, u.type, now)
        entry == <<HistoryEntry(filename, u.type, now)>>
    IN  IF use_gpt
        THEN Processed(parse_with_gpt(key, u.ext, u.readOk, MkContent(3),
                                      DetectResponse("object", Str("Transaction List")),
                                      u.parseResp).table,
                       saved, entry, 1)
        ELSE IF u.type \in TraditionalTypes
        THEN Processed(u.traditional, saved, entry, 1)
        ELSE Processed(None, hist, <<>>, 0)

\* the flag not looked at: a file in the uploader is processed on every run
ShouldProcess_Always(s, u) == u # None

\* "if uploaded_file is not None and not st.session_state.file_uploaded"
ShouldProcess(s, u) == u # None /\ ~s.file_uploaded

\* the flag set whatever process_uploaded_file returned
StoreTables_FlagAlways(key, s, u, transactions) ==
    IF transactions # None
    THEN LET c == categorize_transactions(key, transactions, u.catResp)
         IN  [s EXCEPT !.transactions = c.inputAfter, !.categorized_data = c.table,
                       !.file_uploaded = TRUE]
    ELSE [s EXCEPT !.file_uploaded = TRUE]

\* "if transactions is not None": the two tables and the flag are stored;
\* the session holds the very table object categorize_transactions was given
StoreTables(key, s, u, transactions) ==
    IF transactions # None
    THEN LET c == categorize_transactions(key, transactions, u.catResp)
         IN  [s EXCEPT !.transactions = c.inputAfter, !.categorized_data = c.table,
                       !.file_uploaded = TRUE]
    ELSE s

\* the reset that keeps the tables
ResetSession_KeepsTables(s) == [s EXCEPT !.file_uploaded = FALSE]

\* "Process Another File"
ResetSession(s) ==
    [s EXCEPT !.transactions = None, !.categorized_data = None, !.file_uploaded = FALSE]

\* what one run of the script leaves: the session, the history file, the
\* entries it saved, the call of process_uploaded_file it made, and which
\* branch it ended in
RunResult(s, hist, saved, calls, event) ==
    [session |-> s, history |-> hist, saved |-> saved, calls |-> calls, event |-> event]

\* what the log keeps of a call p of process_uploaded_file that took the
\* session from s1 to s2
Call(s1, u, h0, p, s2) ==
    [upload |-> u, gpt |-> s1.use_gpt_parser, flagBefore |-> s1.file_uploaded,
     parsers |-> p.parsers, returnedNone |-> (p.transactions = None),
     historyBefore |-> h0, historyAfter |-> p.history,
     sessionBefore |-> s1, sessionAfter |-> s2]

\* "Process uploaded file": p is what process_uploaded_file returned, s2 the
\* session after its tables were stored
ProcessBranch(s1, u, h0, p, s2) ==
    RunResult(s2, p.history, p.saved, <<Call(s1, u, h0, p, s2)>>, "process")

\* the script after the parser option is read into the session; p is what
\* process_uploaded_file returns for u, used only where the script calls it
MainBody(key, s1, h0, u, click, p) ==
    IF h0 # <<>> /\ click = "clear"
    THEN RunResult(s1, clear_upload_history(h0), <<>>, <<>>, "clear")
    ELSE IF ShouldProcess(s1, u)
    THEN ProcessBranch(s1, u, h0, p, StoreTables(key, s1, u, p.transactions))
    ELSE IF s1.file_uploaded /\ click = "reset"
    THEN RunResult(ResetSession(s1), h0, <<>>, <<>>, "reset")
    ELSE RunResult(s1, h0, <<>>, <<>>, "none")

\* one run of main(): u is the file in the uploader, checkbox the parser
\* option, click the button that caused the run ("none" if no button did)
main(key, s0, h0, u, checkbox, click, now) ==
    MainBody(key, [s0 EXCEPT !.use_gpt_parser = checkbox], h0, u, click,
             IF u = None THEN Processed(None, h0, <<>>, 0)
             ELSE process_uploaded_file(key, u, checkbox, h0, now))

\* most runs of the script in a behaviour
MaxRuns == 4

\* the step of one run, and what the log keeps of it
RunScript(u, checkbox, click) ==
    \E r \in {main(apiKey, session, history, u, checkbox, click, log.runs + 1)} :
        /\ log.runs < MaxRuns
        /\ session' = r.session
        /\ uploaded_file' = u
        /\ history' = r.history
        /\ log' = [written |-> log.written \o r.saved,
                   clearedAt |-> IF r.event = "clear" THEN Len(log.written)
                                 ELSE log.clearedAt,
                   processed |-> log.processed \o
                                 [i \in 1..Len(r.calls) |->
                                     r.calls[i] @@ [resets |-> log.resets]],
                   runs |-> log.runs + 1,
                   resets |-> IF r.event = "reset" THEN log.resets + 1 ELSE log.resets,
                   event |-> r.event]
        /\ UNCHANGED <<apiKey, doc, extractOut, parseOut, catIn, catOut>>

\* the user puts a file in the uploader, or takes it out
ChooseFile ==
    \E u \in Uploads \cup {None} :
        /\ u # uploaded_file
        /\ RunScript(u, session.use_gpt_parser, "none")

\* the user ticks or unticks "Use GPT-powered intelligent parser"
ToggleParser == RunScript(uploaded_file, ~session.use_gpt_parser, "none")

\* the user presses "Clear Upload History", shown when there is a history
ClickClear ==
    /\ history # <<>>
    /\ RunScript(uploaded_file, session.use_gpt_parser, "clear")

\* the user presses "Process Another File", shown when file_uploaded is set
ClickReset ==
    /\ session.file_uploaded
    /\ RunScript(uploaded_file, session.use_gpt_parser, "reset")

\* the run st.rerun() asks for
Rerun == RunScript(uploaded_file, session.use_gpt_parser, "none")

\* an entry of an earlier session of the server
OldEntry == HistoryEntry([timestamp |-> 0, name |-> "old.csv"], "csv", 0)

InitApp ==
    /\ apiKey \in BOOLEAN
    /\ doc = NoDoc
    /\ extractOut = NotCalled
    /\ parseOut = NotCalled
    /\ catIn = NoDoc
    /\ catOut = NotCalled
    /\ session = InitialSession
    /\ uploaded_file = None
    /\ history \in {<<>>, <<OldEntry>>}
    /\ log = [EmptyLog EXCEPT !.written = history]

NextApp == ChooseFile \/ ToggleParser \/ ClickClear \/ ClickReset \/ Rerun
SpecApp == InitApp /\ [][NextApp]_vars

-----------------------------------------------------------------------------
(* Properties of parse_with_gpt (SpecParse, SpecTrunc).                    *)

AllRows(t, P(_)) == \A i \in 1..Len(t.rows) : P(t.rows[i])

\* something failed inside the parse pipeline: the credential lookup, the
\* content extraction, the model call of the extraction step, or the shape
\* of its answer (not JSON, no data key, a value under it that is no list)
ExtractionStepReached ==
    /\ apiKey
    /\ ~ReadFile(doc.ext, doc.readOk, doc.content).raised
    /\ detect_document_type(doc.content, doc.detResp).type.tag = "str"

PipelineFailure ==
    \/ ~apiKey
    \/ ReadFile(doc.ext, doc.readOk, doc.content).raised
    \/ /\ ExtractionStepReached
       /\ \/ doc.parseResp.k # "object"
          \/ doc.parseResp.data.dk # "list"

\* C1: every failure inside the parse pipeline ends, without an exception,
\* in a table of zero rows whose columns are exactly the five canonical
\* columns date, description, amount, main_category, subcategory.
C1_FailureYieldsEmptyCanonicalTable ==
    (parseOut.called /\ PipelineFailure) =>
        /\ ~parseOut.raised
        /\ Len(parseOut.table.rows) = 0
        /\ parseOut.table.cols = CanonicalColumns

\* C2: every row of every table parse_with_gpt returns has the five
\* required fields present and non-null.
C2_RowsHaveAllRequiredFields ==
    parseOut.called =>
        AllRows(parseOut.table,
                LAMBDA row : /\ CanonicalColumns \subseteq DOMAIN row
                             /\ \A c \in CanonicalColumns : row[c] # Null)

\* what a caller of parse_with_gpt can tell from its result
Observable(o) == [raised |-> o.raised, table |-> o.table]

\* the results parse_with_gpt has for an empty document when a credential
\* is configured
EmptyDocumentOutcomes ==
    {Observable(parse_with_gpt(TRUE, ".csv", TRUE, <<>>, d, r)) :
        d \in DetectResponses, r \in ParseResponses}

CategorizationDegrades ==
    \A r \in CatResponses :
        LET c == categorize_transactions(apiKey, parseOut.table, r)
        IN  ~c.raised /\ c.requests = <<>> /\ "category" \in c.table.cols

\* C6 as stated: without a credential parse_with_gpt reads no content and
\* issues no request, and ends in a failure that can be told from the
\* outcome of an empty document; categorization does not fail.
C6_MissingCredentialIsFatal ==
    (parseOut.called /\ ~apiKey) =>
        /\ parseOut.reads = 0
        /\ parseOut.requests = <<>>
        /\ \/ parseOut.raised
           \/ Observable(parseOut) \notin EmptyDocumentOutcomes
        /\ CategorizationDegrades

\* C6 amended: without a credential parse_with_gpt reads no content, issues
\* no request, raises nothing and returns the empty standard table, which is
\* also a result it has for an empty document; categorization of that table
\* does not fail and issues no request.
C6_MissingCredentialYieldsEmptyTable ==
    (parseOut.called /\ ~apiKey) =>
        /\ parseOut.reads = 0
        /\ parseOut.requests = <<>>
        /\ ~parseOut.raised
        /\ parseOut.handler = "parse_with_gpt"
        /\ parseOut.table = EmptyStandardTable
        /\ Observable(parseOut) \in EmptyDocumentOutcomes
        /\ CategorizationDegrades

C6_Witness ==
    /\ parseOut.called
    /\ ~apiKey
    /\ Lower(doc.ext) \in SupportedExts
    /\ doc.readOk
    /\ doc.parseResp.k = "object"
    /\ Len(doc.parseResp.data.recs) > 0
    /\ parseOut.table = EmptyStandardTable

IsPrefix(t, c) == Len(t) <= Len(c) /\ \A i \in 1..Len(t) : t[i] = c[i]

\* C10: the document text of every request issued while parsing is a prefix
\* of the content, at most TruncLimit long; longer content is never sent
\* whole.
C10_RequestTextIsBoundedPrefix ==
    parseOut.called =>
        \A i \in 1..Len(parseOut.requests) :
            LET text == parseOut.requests[i].text
            IN  /\ IsPrefix(text, doc.content)
                /\ Len(text) <= TruncLimit
                /\ Len(doc.content) > TruncLimit => text # doc.content

C10_Witness ==
    /\ parseOut.called
    /\ Len(doc.content) > TruncLimit
    /\ Len(parseOut.requests) = 2
    /\ Len(parseOut.requests[2].text) = TruncLimit
    /\ Len(parseOut.requests[1].text) = DetectLimit

-----------------------------------------------------------------------------
(* Properties of categorize_transactions (SpecCat).                        *)

AllUncategorized(t) ==
    /\ "category" \in t.cols
    /\ AllRows(t, LAMBDA row : row["category"] = Uncategorized)

\* the response carries a label array: under "categories", or the first
\* list-valued entry
HasLabelArray(resp) ==
    resp.k = "object" /\ resp.key # "none" /\ resp.val.vk = "list"

\* C3: a label array whose length differs from the number of rows leaves
\* every row "Uncategorized".
C3_LengthMismatchFallsBack ==
    (/\ catOut.called
     /\ HasLabelArray(catIn.resp)
     /\ catIn.resp.val.len # Len(catIn.table.rows)) =>
        AllUncategorized(catOut.table)

C3_Witness ==
    /\ catOut.called
    /\ apiKey
    /\ HasLabelArray(catIn.resp)
    /\ catIn.resp.val.len > Len(catIn.table.rows)
    /\ Len(catIn.table.rows) > 0
    /\ catOut.handler = "mismatch"
    /\ AllUncategorized(catOut.table)

\* the response cannot be read as structured data, or the call failed
Unparseable(resp) ==
    \/ resp.k \in {"api_error", "invalid_json", "not_object"}
    \/ resp.k = "object" /\ (resp.key = "none" \/ resp.val.vk # "list")

\* C4: when the response is not structured data or the call fails, nothing
\* is raised and every row is "Uncategorized".
C4_UnparseableFallsBack ==
    (catOut.called /\ Unparseable(catIn.resp)) =>
        ~catOut.raised /\ AllUncategorized(catOut.table)

\* C5: without a credential no request is issued, nothing is raised and
\* every row is "Uncategorized".
C5_NoCredentialDegrades ==
    (catOut.called /\ ~apiKey) =>
        /\ catOut.requests = <<>>
        /\ ~catOut.raised
        /\ AllUncategorized(catOut.table)

C5_Witness ==
    /\ catOut.called
    /\ ~apiKey
    /\ Len(catIn.table.rows) > 0
    /\ ~RowsRaise(catIn.table)
    /\ HasLabelArray(catIn.resp)
    /\ catIn.resp.val.len = Len(catIn.table.rows)
    /\ catOut.handler = "no_key"

\* C7: on every path the returned table has the input's rows, in order,
\* with the input's values, and differs only by the category column.
C7_RowsPreserved ==
    catOut.called =>
        /\ Len(catOut.table.rows) = Len(catIn.table.rows)
        /\ catOut.table.cols = catIn.table.cols \cup {"category"}
        /\ \A i \in 1..Len(catIn.table.rows) :
              \A c \in catIn.table.cols \ {"category"} :
                  catOut.table.rows[i][c] = catIn.table.rows[i][c]

C7_Witness ==
    /\ catOut.called
    /\ apiKey
    /\ catOut.handler = "outer"
    /\ catOut.requests # <<>>
    /\ Len(catIn.table.rows) = 2
    /\ catIn.table.rows[1] # catIn.table.rows[2]

\* C8: a label array as long as the table is assigned by position.
C8_LabelsAssignedPositionally ==
    (/\ catOut.called
     /\ catOut.requests # <<>>
     /\ HasLabelArray(catIn.resp)
     /\ catIn.resp.val.len = Len(catIn.table.rows)) =>
        \A i \in 1..Len(catIn.table.rows) :
            catOut.table.rows[i]["category"] = catIn.resp.val.labels[i]

C8_Witness ==
    /\ catOut.called
    /\ catOut.requests # <<>>
    /\ HasLabelArray(catIn.resp)
    /\ Len(catIn.table.rows) = 2
    /\ catIn.resp.val.len = 2
    /\ catIn.resp.val.labels[1] # catIn.resp.val.labels[2]
    /\ catOut.table.rows[2]["category"] = catIn.resp.val.labels[2]

\* C9: every category of a returned table is one of the vocabulary of the
\* prompt.
C9_CategoriesInVocabulary ==
    catOut.called =>
        AllRows(catOut.table,
                LAMBDA row : row["category"].tag = "str"
                             /\ row["category"].s \in Vocabulary)

-----------------------------------------------------------------------------
(* The model calls of one parse (SpecParse).                               *)

\* the requests of a parse other than the type detection
ExtractionRequests(o) == SelectSeq(o.requests, LAMBDA r : r.purpose # "detect")

\* C11: one document makes exactly one model call for its transformation;
\* no parse issues two or more model calls before categorization.
C11_OneModelCallPerDocument ==
    parseOut.called =>
        /\ Len(parseOut.requests) < 2
        /\ ExtractionStepReached => Len(parseOut.requests) = 1

\* C12: the extraction request and the handling of the answer do not depend
\* on a separately detected document type: whatever the detection call
\* answers, the same content and the same extraction answer give the same
\* extraction request and the same result.
C12_RequestIndependentOfDetectedType ==
    parseOut.called =>
        \A d \in DetectResponses :
            LET o == parse_with_gpt(apiKey, doc.ext, doc.readOk, doc.content,
                                    d, doc.parseResp)
            IN  /\ ExtractionRequests(o) = ExtractionRequests(parseOut)
                /\ Observable(o) = Observable(parseOut)

-----------------------------------------------------------------------------
(* Properties of extract_file_content (SpecExtract).                       *)

\* C13: the extraction strategy follows from the extension alone, compared
\* without regard to case: xlsx/xls, csv, pdf, jpg/jpeg/png; any other
\* extension, the empty one included, reads nothing and raises the
\* unsupported-file-type error, whose message names the extension.
C13_StrategyFromExtensionAlone ==
    extractOut.called =>
        /\ doc.ext \in {".xlsx", ".XLSX", ".xls"} => extractOut.reader = "excel"
        /\ doc.ext = ".csv" => extractOut.reader = "csv"
        /\ doc.ext \in {".pdf", ".Pdf"} => extractOut.reader = "pdf"
        /\ doc.ext \in {".jpg", ".jpeg", ".PNG"} => extractOut.reader = "image"
        /\ extractOut.reader # "none" => extractOut.reads = 1
        /\ doc.ext \in {".txt", "", ".DOCX"} =>
              /\ extractOut.raised
              /\ extractOut.error = "unsupported"
              /\ extractOut.reader = "none"
              /\ extractOut.reads = 0
              /\ extractOut.content = <<>>
              /\ extractOut.message.text = "Unsupported file type"
              /\ extractOut.message.detail
                    = (IF doc.ext = ".DOCX" THEN ".docx" ELSE doc.ext)

C13_Witness ==
    /\ extractOut.called
    /\ doc.ext = ""
    /\ doc.failAt = 0
    /\ doc.pages # <<>>
    /\ extractOut.raised
    /\ extractOut.error = "unsupported"
    /\ extractOut.reads = 0

\* a format-specific reader fails on a file whose extension is supported
ReaderFails ==
    /\ extractOut.called
    /\ extractOut.reader # "none"
    /\ doc.failAt > 0

\* the exception type of the unsupported-file-type error
UnsupportedErrorType == extract_file_content(".txt", <<>>, 0, "").etype

-----------------------------------------------------------------------------
(* The answer of the extraction call turned into a table (SpecParse).      *)

\* the extraction call was made and answered a JSON object
Answered ==
    /\ parseOut.called
    /\ ExtractionStepReached

\* the answer carries a list of records under the data key
Parsed ==
    /\ Answered
    /\ doc.parseResp.k = "object"
    /\ doc.parseResp.data.dk = "list"

\* C15: an answer that is not valid JSON, that lacks the data key, or whose
\* value under the key is not a list is treated as malformed (the fallback
\* handler runs) and no rows are built from it.
C15_MalformedResponseYieldsNoRows ==
    (Answered /\ \/ doc.parseResp.k \in {"invalid_json", "no_key"}
                 \/ doc.parseResp.k = "object" /\ doc.parseResp.data.dk # "list") =>
        /\ parseOut.handler # "none"
        /\ Len(parseOut.table.rows) = 0

\* C16: an answer whose data array is the empty list is a valid result: the
\* extraction ends on its success path, no handler runs, and the table has
\* zero rows.
C16_EmptyListIsValid ==
    (Parsed /\ doc.parseResp.data.recs = <<>>) =>
        /\ ~parseOut.raised
        /\ parseOut.handler = "none"
        /\ Len(parseOut.table.rows) = 0

C16_Witness ==
    /\ Parsed
    /\ doc.parseResp.data.recs = <<>>
    /\ doc.ext = ".pdf"
    /\ parseOut.handler = "none"
    /\ parseOut.table.rows = <<>>

IsNumeric(v) == v.tag = "num" \/ (v.tag = "str" /\ v.s \in NumericStrings)
IsDate(v) == v.tag = "str" /\ v.s \in DateStrings

\* the row a record gives when it is the only one of the answer
RowAlone(rec) ==
    parse_with_gpt(apiKey, doc.ext, doc.readOk, doc.content, doc.detResp,
                   ParseResponse("object", DataValue("list", <<rec>>))).table.rows[1]

Today == "2025-03-02"
FieldDefault(c) ==
    CASE c = "date" -> Str(Today)
      [] c = "amount" -> Num(0)
      [] c = "main_category" -> Str("Uncategorized")
      [] c = "subcategory" -> Str("Unknown")

Has(rec, k) == k \in DOMAIN rec /\ rec[k] # Null

\* C18: a field a record lacks, or holds as null, gets its default in the
\* row: date the day of processing, amount 0.0, main_category
\* "Uncategorized", subcategory "Unknown"; a field that is present keeps
\* its coerced value (Amount "-800" stays -800.0 beside a defaulted date).
C18_MissingFieldsGetDefaults ==
    Parsed =>
        LET recs == doc.parseResp.data.recs
            rows == parseOut.table.rows
        IN  /\ Len(rows) = Len(recs)
            /\ \A i \in 1..Len(recs) :
                  /\ \A c \in {"date", "amount", "main_category", "subcategory"} :
                        ~Has(recs[i], c) =>
                            /\ c \in parseOut.table.cols
                            /\ rows[i][c] = FieldDefault(c)
                  /\ recs[i] = [date |-> Null, description |-> Str("Rent"),
                                amount |-> Str("-800")] =>
                        rows[i]["amount"] = Num(-800)

\* "{subcategory} ({period})" for the strings of the model
WithPeriod(sub, period) ==
    IF sub = Str("Sales Revenue") /\ period = Str("March 2025")
    THEN Str("Sales Revenue (March 2025)") ELSE Null

\* C19: the description of a record that brings none is made of its
\* entity, subcategory and period: subcategory and period without entity
\* give "{subcategory} ({period})", a subcategory alone gives itself, none
\* of the three gives "Unknown".
C19_DescriptionIsSynthesized ==
    Parsed =>
        LET recs == doc.parseResp.data.recs
            rows == parseOut.table.rows
        IN  /\ Len(rows) = Len(recs)
            /\ \A i \in 1..Len(recs) :
                  ~Has(recs[i], "description") =>
                      /\ "description" \in parseOut.table.cols
                      /\ (Has(recs[i], "subcategory") /\ Has(recs[i], "period")
                            /\ ~Has(recs[i], "entity")) =>
                            rows[i]["description"]
                                = WithPeriod(recs[i]["subcategory"], recs[i]["period"])
                      /\ (Has(recs[i], "subcategory") /\ ~Has(recs[i], "period")
                            /\ ~Has(recs[i], "entity")) =>
                            rows[i]["description"] = recs[i]["subcategory"]
                      /\ (~Has(recs[i], "subcategory") /\ ~Has(recs[i], "period")
                            /\ ~Has(recs[i], "entity")) =>
                            rows[i]["description"] = Str("Unknown")

C21_RowsFollowArrayOrder ==
    Parsed =>
        LET recs == doc.parseResp.data.recs
            rows == parseOut.table.rows
        IN  /\ Len(rows) = Len(recs)
            /\ \A i \in 1..Len(recs) :
                  /\ \A k \in DOMAIN recs[i] : rows[i][k] = RowAlone(recs[i])[k]
                  /\ \A k \in parseOut.table.cols \ DOMAIN recs[i] : rows[i][k] = Null

\* two different records, each on the row of its position
C21_Witness ==
    /\ Parsed
    /\ doc.parseResp.data.recs
          = << [date |-> Null, description |-> Str("Rent"), amount |-> Str("-800")],
               [date |-> Str("2025-03-01"), description |-> Str("Sales"),
                amount |-> Num(1200)] >>
    /\ Len(parseOut.table.rows) = 2
    /\ parseOut.table.rows[1]["description"] = Str("Rent")
    /\ parseOut.table.rows[2]["description"] = Str("Sales")

\* C22: every field of a record that is not a canonical field (entity,
\* period, ...) is kept with its value on the record's row; no key of the
\* answer is discarded.
C22_AuxiliaryFieldsKept ==
    Parsed =>
        LET recs == doc.parseResp.data.recs
            rows == parseOut.table.rows
        IN  /\ Len(rows) = Len(recs)
            /\ \A i \in 1..Len(recs) : \A k \in DOMAIN recs[i] \ CanonicalColumns :
                  /\ k \in parseOut.table.cols
                  /\ rows[i][k] = recs[i][k]

C22_Witness ==
    /\ Parsed
    /\ doc.parseResp.data.recs
          = << [date |-> Str("yesterday"), amount |-> Str("1200.00"),
                entity |-> Str("Acme")],
               [subcategory |-> Str("Sales Revenue"), period |-> Str("March 2025"),
                amount |-> Num(1200)] >>
    /\ Len(parseOut.table.rows) = 2
    /\ parseOut.table.rows[1]["entity"] = Str("Acme")
    /\ parseOut.table.rows[2]["period"] = Str("March 2025")

\* the call of detect_document_type failed or answered no JSON
DetectionFailed == doc.detResp.k \in {"api_error", "invalid_json"}

\* C27: no model call is retried: a parse issues each request at most once,
\* and after a request that failed or answered malformed output it issues
\* no further request.
C27_NoRequestAfterFailure ==
    parseOut.called =>
        /\ \A i, j \in 1..Len(parseOut.requests) :
              parseOut.requests[i] = parseOut.requests[j] => i = j
        /\ (Len(parseOut.requests) > 0 /\ DetectionFailed) =>
              Len(parseOut.requests) = 1

\* C29: every table parse_with_gpt returns has at least the columns date,
\* description and amount, also for an empty data array and for records
\* that omit some of these keys.
C29_ParseResultHasStandardColumns ==
    parseOut.called => StandardColumns \subseteq parseOut.table.cols

-----------------------------------------------------------------------------
(* The table handed to categorize_transactions (SpecCat).                  *)

\* C26: the table the parse step returned is never changed in place: on
\* every path of categorize_transactions, the fallbacks for a missing
\* credential and for an exception included, the input table keeps its
\* columns and values and the category column goes on a copy only.
C26_InputTableNotMutated ==
    catOut.called =>
        /\ catOut.inputAfter = catIn.table
        /\ "category" \notin catOut.inputAfter.cols

-----------------------------------------------------------------------------
(* Properties of the application (SpecApp).                                *)

\* the last call of process_uploaded_file
LastCall == log.processed[Len(log.processed)]

\* the table the parser of a call returned
ParsedOf(call) ==
    process_uploaded_file(apiKey, call.upload, call.gpt, <<>>, 0).transactions

\* a table without one of its columns
DropColumn(t, c) ==
    Table(t.cols \ {c},
          [i \in 1..Len(t.rows) |-> [k \in t.cols \ {c} |-> t.rows[i][k]]])

\* the three session fields an upload sets
Tables(s) ==
    [transactions |-> s.transactions, categorized_data |-> s.categorized_data,
     file_uploaded |-> s.file_uploaded]

\* C23: after an upload is processed the session's transactions and
\* categorized_data are the tables derived from that upload, with no row
\* of an earlier upload; after "Process Another File" both are None and
\* file_uploaded is false, as at the start.
C23_SessionTableLifecycle ==
    /\ session.file_uploaded =>
          /\ Len(log.processed) > 0
          /\ DropColumn(session.transactions, "category") = ParsedOf(LastCall)
          /\ session.categorized_data
                = categorize_transactions(apiKey, ParsedOf(LastCall),
                                          LastCall.upload.catResp).table
    /\ log.event = "reset" => Tables(session) = Tables(InitialSession)

\* a one-row upload processed after a two-row upload and a reset
C23_Witness ==
    /\ session.file_uploaded
    /\ Len(log.processed) = 2
    /\ log.resets = 1
    /\ Len(log.processed[1].sessionAfter.transactions.rows) = 2
    /\ LastCall.upload.name = "fees.pdf"
    /\ Len(session.transactions.rows) = 1
    /\ Len(session.categorized_data.rows) = 1

C28_FlagImpliesBothTables ==
    session.file_uploaded =>
        /\ session.transactions # None
        /\ session.categorized_data # None
        /\ "category" \in session.categorized_data.cols
        /\ DropColumn(session.categorized_data, "category")
              = DropColumn(session.transactions, "category")

C28_Witness ==
    /\ session.file_uploaded
    /\ log.resets = 1
    /\ Len(session.transactions.rows) = 2
    /\ session.categorized_data.rows[1]["category"] = Str("Revenue")
    /\ session.categorized_data.rows[2]["category"] = Str("Expenses: Office")

\* C30: a call of process_uploaded_file that ran a parser appends exactly
\* one entry, of status 'processed', to the history, also when the parse
\* failed and returned the empty table; on the traditional route a file
\* type without parser runs none, returns None and appends nothing, and the
\* caller leaves transactions, categorized_data and file_uploaded as they
\* were.
C30_OneHistoryEntryPerParse ==
    \A i \in 1..Len(log.processed) :
        LET c == log.processed[i]
            n == Len(c.historyBefore)
        IN  /\ c.parsers = 1 =>
                  /\ ~c.returnedNone
                  /\ Len(c.historyAfter) = n + 1
                  /\ SubSeq(c.historyAfter, 1, n) = c.historyBefore
                  /\ c.historyAfter[n + 1].status = "processed"
                  /\ c.historyAfter[n + 1].filename.name = c.upload.name
            /\ c.parsers = 0 =>
                  /\ c.returnedNone
                  /\ c.historyAfter = c.historyBefore
                  /\ Tables(c.sessionAfter) = Tables(c.sessionBefore)
            /\ c.parsers = 0 <=> (~c.gpt /\ c.upload.type \notin TraditionalTypes)

\* a text file refused by the traditional route, then parsed, to the empty
\* table, by the model route
C30_Witness ==
    /\ Len(log.processed) = 2
    /\ log.processed[1].parsers = 0
    /\ log.processed[1].upload.name = "notes.txt"
    /\ log.processed[2].gpt
    /\ log.processed[2].sessionAfter.transactions = EmptyStandardTable
    /\ Len(log.processed[2].historyAfter) = Len(log.processed[2].historyBefore) + 1

====
